---- MODULE Spec2Model ----
(***************************************************************************)
(* psix/model_functions.py: the exon-level scoring driver psix_score, the  *)
(* neighbourhood smoother get_arrays, the capture-noise probability model, *)
(* the per-observation score and the turbo lookup path.                    *)
(*                                                                         *)
(* Numbers.  A float is an exact rational <<n, d>> with d > 0 in lowest    *)
(* terms; NaN is <<0, 0>>.  A log-probability difference log(a) - log(b)   *)
(* is held as the rational a/b it is the logarithm of, and a sum of such   *)
(* logarithms as the vector of prime exponents of the product (logarithms  *)
(* of distinct primes are linearly independent, so two sums are equal      *)
(* exactly when their vectors are).  Python's 0-based positions i are the  *)
(* 1-based positions i+1 here: cells are 1..NCells, and position 1 of a    *)
(* neighbour list is Python's position 0 (self).                           *)
(***************************************************************************)
EXTENDS Integers, Sequences, FiniteSets, TLC

(* ------------------------------ bounds -------------------------------- *)
NCells == 3
NProc == 2

(* ------------------------- rational arithmetic ------------------------ *)
NaN == <<0, 0>>
isnan(x) == x[2] = 0

RECURSIVE GCD(_, _)
GCD(a, b) == IF b = 0 THEN a ELSE GCD(b, a % b)

Norm(n, d) == LET g == GCD(n, d) IN <<n \div g, d \div g>>

R(n) == <<n, 1>>
RAdd(a, b) == IF isnan(a) \/ isnan(b) THEN NaN
              ELSE Norm(a[1] * b[2] + b[1] * a[2], a[2] * b[2])
\* a - b for a >= b (every difference taken by the code on these inputs)
RSub(a, b) == IF isnan(a) \/ isnan(b) THEN NaN
              ELSE Norm(a[1] * b[2] - b[1] * a[2], a[2] * b[2])
RMul(a, b) == IF isnan(a) \/ isnan(b) THEN NaN
              ELSE LET g1 == GCD(a[1], b[2])
                       g2 == GCD(b[1], a[2])
                   IN  <<(a[1] \div g1) * (b[1] \div g2),
                         (a[2] \div g2) * (b[2] \div g1)>>
\* a / b; x/0 for x > 0 is inf, which no input of the model produces
RDiv(a, b) == IF isnan(a) \/ isnan(b) \/ b[1] = 0 THEN NaN
              ELSE RMul(a, <<b[2], b[1]>>)
\* comparisons are False when either side is NaN
RLt(a, b) == ~isnan(a) /\ ~isnan(b) /\ a[1] * b[2] < b[1] * a[2]
RLe(a, b) == ~isnan(a) /\ ~isnan(b) /\ a[1] * b[2] <= b[1] * a[2]

\* np.round: to the nearest integer, a half to the even neighbour
Round(x) ==
    LET f == x[1] \div x[2]
        twice == 2 * (x[1] % x[2])
    IN  IF twice < x[2] THEN f
        ELSE IF twice > x[2] THEN f + 1
        ELSE IF f % 2 = 0 THEN f ELSE f + 1

(* --------------------- logarithms as prime vectors -------------------- *)
RECURSIVE LeastDivisor(_, _)
LeastDivisor(n, d) == IF n % d = 0 THEN d
                      ELSE IF d * d > n THEN n
                      ELSE LeastDivisor(n, d + 1)

VecGet(v, p) == IF p \in DOMAIN v THEN v[p] ELSE 0
VecAdd(u, v) ==
    LET D == DOMAIN u \cup DOMAIN v
        raw == [p \in D |-> VecGet(u, p) + VecGet(v, p)]
    IN  [p \in {x \in D : raw[x] # 0} |-> raw[p]]
VecNeg(u) == [p \in DOMAIN u |-> 0 - u[p]]
VecZero == [p \in {} |-> 0]

RECURSIVE LogNat(_)
LogNat(n) == IF n = 1 THEN VecZero
             ELSE LET p == LeastDivisor(n, 2)
                  IN  VecAdd([q \in {p} |-> 1], LogNat(n \div p))

\* np.log of a positive rational
Log(x) == VecAdd(LogNat(x[1]), VecNeg(LogNat(x[2])))

\* A float in the log domain: (sum over primes p of v[p] * log p) / div, or NaN.
LogFloat(v, d) == [nan |-> FALSE, v |-> v, div |-> d]
LogNaN == [nan |-> TRUE, v |-> VecZero, div |-> 1]
LogZero == LogFloat(VecZero, 1)
\* np.log
NpLog(x) == IF isnan(x) THEN LogNaN ELSE LogFloat(Log(x), 1)
\* a - b and a + b of two undivided log-domain floats
LSub(a, b) == IF a.nan \/ b.nan THEN LogNaN
              ELSE LogFloat(VecAdd(a.v, VecNeg(b.v)), 1)
LAdd(a, b) == IF a.nan \/ b.nan THEN LogNaN
              ELSE LogFloat(VecAdd(a.v, b.v), 1)
RECURSIVE SetGCD(_, _)
SetGCD(S, g) == IF S = {} THEN g
                ELSE LET x == CHOOSE y \in S : TRUE
                     IN  SetGCD(S \ {x}, GCD(IF x < 0 THEN 0 - x ELSE x, g))
\* a / n for an integer n > 0, in lowest terms
LDivInt(a, n) ==
    IF a.nan THEN LogNaN
    ELSE LET g == SetGCD({a.v[p] : p \in DOMAIN a.v}, n)
         IN  LogFloat([p \in DOMAIN a.v |-> a.v[p] \div g], n \div g)

(* ------------------------- CaptureNoiseModel -------------------------- *)
\* binom(N, k) for an integer k >= 0: the product (N-k+1)...(N) / k!
RECURSIVE Binom(_, _)
Binom(N, k) == IF k = 0 THEN R(1)
               ELSE RMul(RMul(Binom(N, k - 1), RSub(N, R(k - 1))), <<1, k>>)

\* scipy.special.comb(N, k) (exact=False): binom(N, k) where
\* (k <= N) & (N >= 0) & (k >= 0), and 0 elsewhere; a NaN argument fails
\* the comparisons, so it is masked to 0 as well.  k is an integer here:
\* the observed ratios of the model are 0 or 1.
comb(N, k) == IF RLe(k, N) /\ RLe(R(0), N) /\ RLe(R(0), k)
              THEN Binom(N, k[1])
              ELSE R(0)

RECURSIVE RPow(_, _)
RPow(x, n) == IF n = 0 THEN R(1) ELSE RMul(x, RPow(x, n - 1))

\* np.int of a non-negative float
Trunc(x) == x[1] \div x[2]

\* one element of prob_array: comb_1*comb_2*proba_1*proba_2 at m_array's m
ProbArray(m, observed_psi, true_psi, capture_efficiency, captured_mrna) ==
    LET comb_1 == comb(RMul(R(m), true_psi),
                       RMul(R(captured_mrna), observed_psi))
        comb_2 == comb(RMul(R(m), RSub(R(1), true_psi)),
                       RMul(R(captured_mrna), RSub(R(1), observed_psi)))
    IN  IF comb_1 = R(0) \/ comb_2 = R(0) THEN R(0)
        ELSE RMul(RMul(comb_1, comb_2),
                  RMul(RPow(capture_efficiency, captured_mrna + 1),
                       RPow(RSub(R(1), capture_efficiency), m - captured_mrna)))

\* np.sum(prob_array) over m_array = lo..hi-1, summed by halves
RECURSIVE SumUnknown(_, _, _, _, _, _)
SumUnknown(lo, hi, observed_psi, true_psi, capture_efficiency, captured_mrna) ==
    IF lo >= hi THEN R(0)
    ELSE IF lo + 1 = hi
    THEN ProbArray(lo, observed_psi, true_psi, capture_efficiency, captured_mrna)
    ELSE LET mid == (lo + hi) \div 2
         IN  RAdd(SumUnknown(lo, mid, observed_psi, true_psi,
                             capture_efficiency, captured_mrna),
                  SumUnknown(mid, hi, observed_psi, true_psi,
                             capture_efficiency, captured_mrna))

\* The least m >= lo at which comb(m*psi, k) is not masked to 0, i.e. with
\* k <= m*psi (hi when there is none): the mask is monotone in m.
FirstUnmasked(lo, hi, psi, k) ==
    IF isnan(psi) \/ isnan(k) THEN hi
    ELSE IF k[1] = 0 THEN lo
    ELSE IF psi[1] = 0 THEN hi
    ELSE LET c == (k[1] * psi[2] + k[2] * psi[1] - 1) \div (k[2] * psi[1])
         IN  IF c > hi THEN hi ELSE IF c < lo THEN lo ELSE c

\* m_array = np.arange(captured_mrna, np.int(10*captured_mrna/capture_efficiency))
\* and np.sum(prob_array); the elements before the first m at which both
\* binomials are unmasked are 0 and are left out of the sum
probability_psi_m_unknown(observed_psi, true_psi, capture_efficiency, captured_mrna) ==
    LET lo == captured_mrna
        hi == Trunc(RDiv(R(10 * captured_mrna), capture_efficiency))
        m1 == FirstUnmasked(lo, hi, true_psi, RMul(R(captured_mrna), observed_psi))
        m2 == FirstUnmasked(lo, hi, RSub(R(1), true_psi),
                            RMul(R(captured_mrna), RSub(R(1), observed_psi)))
    IN  SumUnknown(IF m1 > m2 THEN m1 ELSE m2, hi, observed_psi, true_psi,
                   capture_efficiency, captured_mrna)

probability_psi_m_known(observed_psi, true_psi, captured_mrna, cell_molecules) ==
    LET comb_1 == comb(RMul(cell_molecules, true_psi),
                       RMul(R(captured_mrna), observed_psi))
        comb_2 == comb(RMul(cell_molecules, RSub(R(1), true_psi)),
                       RMul(R(captured_mrna), RSub(R(1), observed_psi)))
        comb_3 == RDiv(R(1), comb(cell_molecules, R(captured_mrna)))
    IN  RMul(RMul(comb_1, comb_2), comb_3)

probability_psi_observation(observed_psi, true_psi, capture_efficiency, captured_mrna) ==
    LET cell_molecules == RDiv(R(captured_mrna), capture_efficiency)
    IN  IF \/ RLt(RMul(cell_molecules, true_psi),
                  RMul(R(captured_mrna), observed_psi))
           \/ RLt(RMul(cell_molecules, RSub(R(1), true_psi)),
                  RMul(R(captured_mrna), RSub(R(1), observed_psi)))
        THEN probability_psi_m_unknown(observed_psi, true_psi,
                                       capture_efficiency, captured_mrna)
        ELSE probability_psi_m_known(observed_psi, true_psi,
                                     captured_mrna, cell_molecules)

(* ----------------------- per-observation score ------------------------ *)
\* np.max([a, b]): NaN when either is NaN
NpMax(a, b) == IF isnan(a) \/ isnan(b) THEN NaN
               ELSE IF RLt(a, b) THEN b ELSE a

\* np.max([min_probability, probability_psi_observation(...)])
probability_given(observed_psi, psi, captured_mrna, capture_efficiency, min_probability) ==
    NpMax(min_probability,
          probability_psi_observation(observed_psi, psi,
                                      capture_efficiency, captured_mrna))

psi_observation_score(observed_psi, neighborhood_psi, global_psi, captured_mrna, capture_efficiency, min_probability) ==
    IF isnan(observed_psi) THEN LogZero
    ELSE
    LET log_probability_neighborhood ==
            NpLog(probability_given(observed_psi, neighborhood_psi, captured_mrna,
                                    capture_efficiency, min_probability))
        log_probability_global ==
            NpLog(probability_given(observed_psi, global_psi, captured_mrna,
                                    capture_efficiency, min_probability))
        any_nan == \/ log_probability_neighborhood.nan
                   \/ log_probability_global.nan
                   \/ LSub(log_probability_neighborhood, log_probability_global).nan
    IN  IF any_nan THEN LogZero
        ELSE LSub(log_probability_neighborhood, log_probability_global)

\* 0.99 if x > 0.99 else 0.01 if x < 0.01 else x
Clamp(x) == IF RLt(<<99, 100>>, x) THEN <<99, 100>>
            ELSE IF RLt(x, <<1, 100>>) THEN <<1, 100>>
            ELSE x

psi_observations_scores_vec(observed_psi_array, neighborhood_psi_array, global_psi, mrna_array, capture_efficiency, min_probability) ==
    [i \in 1..Len(observed_psi_array) |->
        psi_observation_score(observed_psi_array[i],
                              Clamp(neighborhood_psi_array[i]),
                              global_psi, mrna_array[i],
                              capture_efficiency, min_probability)]

(* ------------------------ NeighborhoodSmoother ------------------------ *)
\* the loop over j in range(1, len(neighbors)): <<psi_sum, weight_sum>>
RECURSIVE NeighborLoop(_, _, _, _, _)
NeighborLoop(j, neighbors, weights, observed_psi_array, acc) ==
    IF j > Len(neighbors) THEN acc
    ELSE LET psi_n == observed_psi_array[neighbors[j]]
         IN  NeighborLoop(j + 1, neighbors, weights, observed_psi_array,
                 IF ~isnan(psi_n)
                 THEN <<RAdd(acc[1], RMul(psi_n, R(weights[j]))),
                        RAdd(acc[2], R(weights[j]))>>
                 ELSE acc)

\* (a variant for comparison: the loop over j in range(0, len(neighbors)),
\* which lets a cell's own observation into its estimate)
NeighborhoodPsiWithSelf(i, observed_psi_array, cell_metric_) ==
    LET sums == NeighborLoop(1, cell_metric_[1][i], cell_metric_[2][i],
                             observed_psi_array, <<R(0), R(0)>>)
    IN  IF RLt(R(0), sums[2]) THEN RDiv(sums[1], sums[2]) ELSE NaN

\* psi_a for cell i: psi_sum/weight_sum if weight_sum > 0 else NaN
NeighborhoodPsi(i, observed_psi_array, cell_metric_) ==
    LET sums == NeighborLoop(2, cell_metric_[1][i], cell_metric_[2][i],
                             observed_psi_array, <<R(0), R(0)>>)
    IN  IF RLt(R(0), sums[2]) THEN RDiv(sums[1], sums[2]) ELSE NaN

\* (a variant for comparison: the collapse interval closed at 0.1)
CollapseClosed(x) == IF RLe(<<1, 10>>, x) /\ RLe(x, R(1)) THEN R(1) ELSE x

\* 1 if ((x > 0.1) and (x <= 1)) else x
Collapse(x) == IF RLt(<<1, 10>>, x) /\ RLe(x, R(1)) THEN R(1) ELSE x

RECURSIVE GetArraysLoop(_, _, _, _, _)
GetArraysLoop(i, observed_psi_array, mrna_obs_array, cell_metric_, acc) ==
    IF i > Len(observed_psi_array) THEN acc
    ELSE LET psi_o == observed_psi_array[i]
         IN  GetArraysLoop(i + 1, observed_psi_array, mrna_obs_array, cell_metric_,
                 IF ~isnan(psi_o)
                 THEN [psi_o_array |-> Append(acc.psi_o_array, psi_o),
                       psi_a_array |-> Append(acc.psi_a_array,
                           NeighborhoodPsi(i, observed_psi_array, cell_metric_)),
                       mrna_array |-> Append(acc.mrna_array, mrna_obs_array[i])]
                 ELSE acc)

\* (a variant for comparison: no `if not np.isnan(psi_o)`, every cell kept)
get_arrays_unfiltered(observed_psi_array, mrna_obs_array, cell_metric_) ==
    [psi_o_array |-> observed_psi_array,
     psi_a_array |-> [i \in 1..Len(observed_psi_array) |->
                        NeighborhoodPsi(i, observed_psi_array, cell_metric_)],
     mrna_array |-> [i \in 1..Len(mrna_obs_array) |-> Collapse(mrna_obs_array[i])]]

get_arrays(observed_psi_array, mrna_obs_array, cell_metric_) ==
    LET out == GetArraysLoop(1, observed_psi_array, mrna_obs_array, cell_metric_,
                   [psi_o_array |-> <<>>, psi_a_array |-> <<>>, mrna_array |-> <<>>])
    IN  [out EXCEPT !.mrna_array =
            [k \in 1..Len(out.mrna_array) |-> Collapse(out.mrna_array[k])]]

(* -------------------------- PermutationTester ------------------------- *)
\* (a variant for comparison: a seed that only an unseeded generator takes)
SeedOnce(old, seed) == IF old < 0 THEN seed ELSE old

\* np.random.seed(seed): the generator state is a function of the seed alone
SeedState(old, seed) == seed

Swap(x, a, b) == [x EXCEPT ![a] = x[b], ![b] = x[a]]

\* sklearn.utils.shuffle -> RandomState.shuffle: for i = n-1 down to 1, swap
\* x[i] with x[j], j drawn in 0..i.  The generator is a counter whose draws
\* are the mixed-radix digits of its state.
RECURSIVE FisherYates(_, _, _)
FisherYates(x, i, q) ==
    IF i < 1 THEN x
    ELSE FisherYates(Swap(x, i + 1, (q % (i + 1)) + 1), i - 1, q \div (i + 1))

\* (a variant for comparison: ncells independent draws, with replacement)
sample_with_replacement(state, ncells) ==
    [k \in 1..ncells |-> ((state + k * k) % ncells) + 1]

\* shuffle(range(ncells)), as 1-based cell numbers
shuffle(state, ncells) == FisherYates([k \in 1..ncells |-> k], ncells - 1, state)
\* the generator state after the draw
Advance(state) == state + 1

\* array[shuffled_cells]
Reindex(array, shuffled_cells) == [k \in 1..Len(shuffled_cells) |-> array[shuffled_cells[k]]]

(* ------------------------------ TurboTable ---------------------------- *)
\* The table for `mrna` captured molecules at row psi_o_idx, column psi_a_idx:
\* the noise model on the 0.01 grid, built at the default capture efficiency
\* with zero probabilities raised to the default floor (strictly positive).
TurboEntry(mrna, psi_o_idx, psi_a_idx) ==
    NpMax(<<1, 100>>,
          probability_psi_observation(Norm(psi_o_idx, 100), Norm(psi_a_idx + 1, 100),
                                      <<1, 10>>, mrna))

\* np.int(np.round(x*100)) - 1.  For a NaN the float-to-int conversion of
\* the compiled code is undefined: the build yields 0 (then -1), or the
\* smallest integer, which the subtraction wraps to the largest one
\* (written here as 2^31 - 1).
RoundedIdxMinusOne(x, nan_cast_) ==
    IF isnan(x) THEN (IF nan_cast_ = "int_min" THEN 2147483647 ELSE 0 - 1)
    ELSE Round(RMul(x, R(100))) - 1

\* the three indices psix_turbo computes
TurboIndex(psi_o, psi_a, mrna, nan_cast_) ==
    LET raw == RoundedIdxMinusOne(psi_a, nan_cast_)
    IN  [psi_o_idx |-> Round(RMul(psi_o, R(100))),
         psi_a_idx |-> IF raw < 0 THEN 0 ELSE IF raw > 98 THEN 98 ELSE raw,
         mrna_idx |-> mrna - 1]

\* turbo_dict[mrna_idx] of a list of `turbo` tables: a negative index counts
\* from the end; the result is the molecule count whose table is read
TableRead(mrna_idx, turbo_) == IF mrna_idx < 0 THEN mrna_idx + turbo_ + 1 ELSE mrna_idx + 1

psix_turbo(psi_o, psi_a, mrna, turbo_, nan_cast_) ==
    LET ix == TurboIndex(psi_o, psi_a, mrna, nan_cast_)
    IN  TurboEntry(TableRead(ix.mrna_idx, turbo_), ix.psi_o_idx, ix.psi_a_idx)

L_score_turbo(psi_o, psi_a, psi_n, mrna, turbo_, nan_cast_) ==
    LSub(NpLog(psix_turbo(psi_o, psi_a, mrna, turbo_, nan_cast_)),
         NpLog(psix_turbo(psi_o, psi_n, mrna, turbo_, nan_cast_)))

psi_observations_scores_vec_turbo(observed_psi_array, neighborhood_psi_array, global_psi, mrna_array, turbo_, nan_cast_) ==
    [i \in 1..Len(observed_psi_array) |->
        L_score_turbo(observed_psi_array[i], neighborhood_psi_array[i],
                      global_psi, mrna_array[i], turbo_, nan_cast_)]

\* mrna_max if x >= mrna_max else x
CapMrna(mrna_array, mrna_max) ==
    [k \in 1..Len(mrna_array) |->
        IF mrna_array[k] >= mrna_max THEN mrna_max ELSE mrna_array[k]]

(* ------------------------- exon-level helpers ------------------------- *)
RECURSIVE RSum(_, _)
RSum(xs, k) == IF k = 0 THEN R(0) ELSE RAdd(RSum(xs, k - 1), xs[k])
\* np.nanmean of a list without NaN (get_arrays keeps defined observations)
nanmean(xs) == IF Len(xs) = 0 THEN NaN ELSE RDiv(RSum(xs, Len(xs)), R(Len(xs)))

RECURSIVE LSum(_, _)
LSum(xs, k) == IF k = 0 THEN LogZero ELSE LAdd(LSum(xs, k - 1), xs[k])
\* np.sum(L_vec)
NpSum(L_vec) == LSum(L_vec, Len(L_vec))

CountZero(mrna_array) == Cardinality({k \in 1..Len(mrna_array) : mrna_array[k] = 0})

(* ------------------------------- state -------------------------------- *)
VARIABLES
    exon_psi_array,   \* the caller's observed-ratio column (read-only)
    exon_mrna_array,  \* the caller's captured-molecule estimates (read-only)
    cell_metric,      \* <<neighbors, weights>>, one row per cell (read-only)
    rng,              \* the state of numpy's process-wide generator
    nan_cast,         \* what the build's float-to-int conversion makes of NaN
    pc,               \* per call: where psix_score stands
    args,             \* per call: the arguments of psix_score
    frame,            \* per call: the local variables of psix_score
    ret,              \* per call: the value returned
    returned          \* the caller's record of one earlier call, and whether
                      \* a call with other arguments has finished since

vars == <<exon_psi_array, exon_mrna_array, cell_metric, rng, nan_cast,
          pc, args, frame, ret, returned>>
data == <<exon_psi_array, exon_mrna_array, cell_metric>>

Proc == 1..NProc
Cells == 1..NCells

\* input alphabets
Observations == {NaN, R(0), R(1)}
MrnaEstimates == {<<1, 10>>, <<1, 2>>, <<5, 2>>}
WeightRows == {<<1, 1, 2>>, <<1, 0, 1>>, <<1, 0, 0>>}
Seeds == {0, 1}
MinProbabilities == {<<1, 100>>, <<1, 10>>}
TurboSizes == {1, 2}
NaNCasts == {"zero", "int_min"}

\* a k-nearest-neighbour structure on a ring: row i lists i itself, then the
\* next cells, each row with the weights w
Graph(w) == << [i \in Cells |-> [j \in 1..Len(w) |-> ((i + j - 2) % NCells) + 1]],
               [i \in Cells |-> w] >>

\* the defaults of psix_score's signature
DefaultArgs == [capture_efficiency |-> <<1, 10>>, randomize |-> FALSE,
                min_probability |-> <<1, 100>>, seed |-> 0, turbo |-> 0]

EmptyFrame == [exon_psi_array |-> <<>>, exon_mrna_array |-> <<>>,
               shuffled_cells |-> <<>>,
               observed_psi_array |-> <<>>, neighborhood_psi_array |-> <<>>,
               mrna_array |-> <<>>, total_cells |-> 0, global_psi |-> NaN,
               L_vec |-> <<>>]

\* the caller's record: nothing kept yet
NoCall == [has |-> FALSE, args |-> DefaultArgs, shuffled_cells |-> <<>>,
           ret |-> LogNaN, others |-> FALSE]

InitCalls ==
    /\ rng = 0 - 1      \* seeded from the OS at import: no seed of the model
    /\ nan_cast = "unresolved"
    /\ pc = [p \in Proc |-> "idle"]
    /\ args = [p \in Proc |-> DefaultArgs]
    /\ frame = [p \in Proc |-> EmptyFrame]
    /\ ret = [p \in Proc |-> LogNaN]
    /\ returned = NoCall

\* molecule-estimate columns: a constant column of each estimate, and the
\* estimates 0.1, 0.5, 2.5 in turn from each starting point
MrnaColumns ==
    {[i \in Cells |-> m] : m \in MrnaEstimates}
    \cup {[i \in Cells |-> <<<<1, 10>>, <<1, 2>>, <<5, 2>>>>[((i + s) % 3) + 1]] : s \in 0..2}

\* observation columns for the specifications of repeated and concurrent
\* calls: a constant column of each value, and 1, 0, NaN in turn
PsiColumns ==
    {[i \in Cells |-> o] : o \in Observations}
    \cup {[i \in Cells |-> <<R(1), R(0), NaN>>[((i + s) % 3) + 1]] : s \in 0..2}

Init ==
    /\ exon_psi_array \in [Cells -> Observations]
    /\ exon_mrna_array \in MrnaColumns
    /\ cell_metric \in {Graph(w) : w \in WeightRows}
    /\ InitCalls

InitSmall ==
    /\ exon_psi_array \in PsiColumns
    /\ exon_mrna_array \in MrnaColumns
    /\ cell_metric = Graph(<<1, 1, 2>>)
    /\ InitCalls

(* ------------------------------ psix_score ---------------------------- *)
\* the call: arguments bound, ncells taken, `if randomize:` tested
Call(p, randomize_, seed_) ==
    /\ pc[p] = "idle"
    /\ args' = [args EXCEPT ![p] = [DefaultArgs EXCEPT !.randomize = randomize_,
                                                       !.seed = seed_]]
    /\ frame' = [frame EXCEPT ![p] = [EmptyFrame EXCEPT
                    !.exon_psi_array = exon_psi_array,
                    !.exon_mrna_array = exon_mrna_array]]
    /\ pc' = [pc EXCEPT ![p] = IF randomize_ THEN "seed" ELSE "get_arrays"]
    /\ UNCHANGED <<data, rng, nan_cast, ret, returned>>

\* np.random.seed(seed)
Seed(p) ==
    /\ pc[p] = "seed"
    /\ rng' = SeedState(rng, args[p].seed)
    /\ pc' = [pc EXCEPT ![p] = "shuffle"]
    /\ UNCHANGED <<data, nan_cast, args, frame, ret, returned>>

\* shuffled_cells = shuffle(range(ncells)) and the two reindexings
Shuffle(p) ==
    /\ pc[p] = "shuffle"
    /\ LET shuffled_cells == shuffle(rng, Len(frame[p].exon_psi_array))
       IN  frame' = [frame EXCEPT ![p] = [@ EXCEPT
                !.shuffled_cells = shuffled_cells,
                !.exon_psi_array = Reindex(@, shuffled_cells),
                !.exon_mrna_array = Reindex(@, shuffled_cells)]]
    /\ rng' = Advance(rng)
    /\ pc' = [pc EXCEPT ![p] = "get_arrays"]
    /\ UNCHANGED <<data, nan_cast, args, ret, returned>>

\* get_arrays, np.round(mrna_array).astype(int), total_cells
GetArrays(p) ==
    /\ pc[p] = "get_arrays"
    /\ LET out == get_arrays(frame[p].exon_psi_array, frame[p].exon_mrna_array,
                             cell_metric)
           mrna_array == [k \in 1..Len(out.mrna_array) |-> Round(out.mrna_array[k])]
       IN  frame' = [frame EXCEPT ![p] = [@ EXCEPT
                !.observed_psi_array = out.psi_o_array,
                !.neighborhood_psi_array = out.psi_a_array,
                !.mrna_array = mrna_array,
                !.total_cells = Len(out.psi_o_array) - CountZero(mrna_array)]]
    /\ pc' = [pc EXCEPT ![p] = "check"]
    /\ UNCHANGED <<data, rng, nan_cast, args, ret, returned>>

\* if total_cells <= 0: return np.nan
\* (turbo_ is the call's turbo argument: 0 for none, else the number of tables)
ReturnUndefined(p, turbo_) ==
    /\ pc[p] = "check"
    /\ frame[p].total_cells <= 0
    /\ ret' = [ret EXCEPT ![p] = LogNaN]
    /\ args' = [args EXCEPT ![p] = [@ EXCEPT !.turbo = turbo_]]
    /\ pc' = [pc EXCEPT ![p] = "done"]
    /\ UNCHANGED <<data, rng, nan_cast, frame, returned>>

\* global_psi, the direct path (turbo False) and the return
ScoreDirect(p, min_probability_) ==
    /\ pc[p] = "check"
    /\ frame[p].total_cells > 0
    /\ LET f == frame[p]
           global_psi == nanmean(f.observed_psi_array)
           L_vec == psi_observations_scores_vec(
                        f.observed_psi_array, f.neighborhood_psi_array, global_psi,
                        f.mrna_array, args[p].capture_efficiency, min_probability_)
       IN  /\ frame' = [frame EXCEPT ![p] = [@ EXCEPT !.global_psi = global_psi,
                                                      !.L_vec = L_vec]]
           /\ ret' = [ret EXCEPT ![p] = LDivInt(NpSum(frame'[p].L_vec), f.total_cells)]
    /\ args' = [args EXCEPT ![p] = [@ EXCEPT !.min_probability = min_probability_]]
    /\ pc' = [pc EXCEPT ![p] = "done"]
    /\ UNCHANGED <<data, rng, nan_cast, returned>>

\* global_psi, the turbo path (turbo a list of turbo_ tables) and the return
ScoreTurbo(p, turbo_, min_probability_, cast) ==
    /\ pc[p] = "check"
    /\ frame[p].total_cells > 0
    \* the build's conversion is one and the same in every call; it is
    \* settled by the first call that converts a NaN
    /\ \/ nan_cast = cast
       \/ /\ nan_cast = "unresolved"
          /\ \/ cast = "zero"
             \/ \E k \in 1..Len(frame[p].neighborhood_psi_array) :
                    isnan(frame[p].neighborhood_psi_array[k])
    /\ LET f == frame[p]
           global_psi == nanmean(f.observed_psi_array)
           mrna_array == CapMrna(f.mrna_array, turbo_)
           L_vec == psi_observations_scores_vec_turbo(
                        f.observed_psi_array, f.neighborhood_psi_array, global_psi,
                        mrna_array, turbo_, cast)
       IN  /\ frame' = [frame EXCEPT ![p] = [@ EXCEPT !.global_psi = global_psi,
                                                      !.mrna_array = mrna_array,
                                                      !.L_vec = L_vec]]
           /\ ret' = [ret EXCEPT ![p] = LDivInt(NpSum(frame'[p].L_vec), f.total_cells)]
           /\ nan_cast' = IF \E k \in 1..Len(f.neighborhood_psi_array) :
                                isnan(f.neighborhood_psi_array[k])
                          THEN cast ELSE nan_cast
    /\ args' = [args EXCEPT ![p] = [@ EXCEPT !.turbo = turbo_,
                                             !.min_probability = min_probability_]]
    /\ pc' = [pc EXCEPT ![p] = "done"]
    /\ UNCHANGED <<data, rng, returned>>

\* the caller takes the result, keeps it or not, and is free to call again
Again(p, keep) ==
    /\ pc[p] = "done"
    /\ returned' = IF keep
                   THEN [has |-> TRUE, args |-> args[p],
                         shuffled_cells |-> frame[p].shuffled_cells,
                         ret |-> ret[p], others |-> FALSE]
                   ELSE [returned EXCEPT !.others =
                            @ \/ (returned.has /\ returned.args # args[p])]
    /\ pc' = [pc EXCEPT ![p] = "idle"]
    /\ args' = [args EXCEPT ![p] = DefaultArgs]
    /\ frame' = [frame EXCEPT ![p] = EmptyFrame]
    /\ ret' = [ret EXCEPT ![p] = LogNaN]
    /\ UNCHANGED <<data, rng, nan_cast>>

(* --------------------------- specifications --------------------------- *)
\* one call of psix_score on every exon column of the bounds
Next ==
    \/ \E s \in Seeds : Call(1, TRUE, s)
    \/ Call(1, FALSE, 0)
    \/ Seed(1)
    \/ Shuffle(1)
    \/ GetArrays(1)
    \/ \E k \in {0} \cup TurboSizes : ReturnUndefined(1, k)
    \/ \E m \in MinProbabilities : ScoreDirect(1, m)
    \/ \E k \in TurboSizes, c \in NaNCasts :
           ScoreTurbo(1, k, DefaultArgs.min_probability, c)

Spec == Init /\ [][Next]_vars

\* one caller calling psix_score again and again, one call at a time
NextSeq ==
    \/ \E s \in Seeds : Call(1, TRUE, s)
    \/ Call(1, FALSE, 0)
    \/ Seed(1)
    \/ Shuffle(1)
    \/ GetArrays(1)
    \/ \E k \in {0, 1} : ReturnUndefined(1, k)
    \/ ScoreDirect(1, DefaultArgs.min_probability)
    \/ \E m \in MinProbabilities, c \in NaNCasts : ScoreTurbo(1, 1, m, c)
    \/ \E keep \in BOOLEAN : Again(1, keep)

SpecSeq == InitSmall /\ [][NextSeq]_vars

\* NProc threads, each calling psix_score once, their steps interleaved
NextConc ==
    \E p \in Proc :
        \/ \E s \in Seeds : Call(p, TRUE, s)
        \/ Seed(p)
        \/ Shuffle(p)
        \/ GetArrays(p)
        \/ ReturnUndefined(p, 0)
        \/ ScoreDirect(p, DefaultArgs.min_probability)

SpecConc == InitSmall /\ [][NextConc]_vars

(* ------------------- what the properties are stated in ---------------- *)
\* the cells of a column with a defined observation, and the k-th of them
DefinedCells(xs) == {i \in 1..Len(xs) : ~isnan(xs[i])}
KthDefined(xs, k) ==
    CHOOSE i \in DefinedCells(xs) :
        Cardinality({j \in DefinedCells(xs) : j <= i}) = k

\* a raw molecule estimate x >= 0 is 0 after the collapse rule and rounding
\* exactly when x <= 0.1
ZeroMolecules(x) == RLe(x, <<1, 10>>)
\* the cells that count towards total_scored_cells
ScoredCells(psi, mrna) == {i \in DefinedCells(psi) : ~ZeroMolecules(mrna[i])}

\* the neighbour-list positions of cell i that contribute to its estimate:
\* every position but the first (self) whose neighbour is observed
Contributing(i, xs, cm) == {j \in 2..Len(cm[1][i]) : ~isnan(xs[cm[1][i][j]])}

\* the sum of F[j] over the positions j of S
RECURSIVE SumOver(_, _)
SumOver(S, F) == IF S = {} THEN R(0)
                 ELSE LET j == CHOOSE x \in S : TRUE
                      IN  RAdd(F[j], SumOver(S \ {j}, F))

\* est is the weighted average of the contributing neighbours of cell i, and
\* NaN when their weights do not sum to more than 0
IsWeightedAverage(est, i, xs, cm) ==
    LET C == Contributing(i, xs, cm)
        wsum == SumOver(C, [j \in C |-> R(cm[2][i][j])])
        psum == SumOver(C, [j \in C |-> RMul(xs[cm[1][i][j]], R(cm[2][i][j]))])
    IN  IF RLt(R(0), wsum) THEN ~isnan(est) /\ RMul(est, wsum) = psum
        ELSE isnan(est)

\* the number whose logarithm the prime vector v is
RECURSIVE PrimePower(_, _)
PrimePower(p, n) == IF n = 0 THEN 1 ELSE p * PrimePower(p, n - 1)
RECURSIVE ExpVec(_, _)
ExpVec(v, D) ==
    IF D = {} THEN R(1)
    ELSE LET p == CHOOSE x \in D : TRUE
         IN  RMul(IF v[p] > 0 THEN <<PrimePower(p, v[p]), 1>>
                  ELSE <<1, PrimePower(p, 0 - v[p])>>,
                  ExpVec(v, D \ {p}))
Exp(x) == ExpVec(x.v, DOMAIN x.v)

\* the call of p has returned a score (not the undefined result)
Scored(p) == pc[p] = "done" /\ frame[p].total_cells > 0

(* ------------------------------ properties ---------------------------- *)
\* C1: whenever total_scored_cells <= 0 -- the cells with a defined
\* observation, less those of them whose molecule estimate is 0 after the
\* collapse rule and rounding -- psix_score returns the undefined result
\* NaN, with or without a turbo table; total_cells is that number.
C1_UndefinedWhenNothingScored ==
    \A p \in Proc : pc[p] = "done" =>
        LET f == frame[p]
            total == Cardinality(DefinedCells(f.exon_psi_array))
                     - Cardinality({i \in DefinedCells(f.exon_psi_array) :
                                        ZeroMolecules(f.exon_mrna_array[i])})
        IN  /\ f.total_cells = total
            /\ total <= 0 => ret[p].nan

\* a call with a turbo table on a column with defined observations whose
\* molecule estimates are all 0 has returned
C1_Witness ==
    /\ pc[1] = "done"
    /\ args[1].turbo > 0
    /\ DefinedCells(frame[1].exon_psi_array) # {}
    /\ \A i \in DefinedCells(frame[1].exon_psi_array) :
           frame[1].exon_mrna_array[i] = <<1, 10>>
    /\ ret[1].nan

\* C2: a cell whose observation is undefined has no term in the sum of
\* per-cell scores and is not counted in total_scored_cells, whatever its
\* molecule estimate; it is skipped as a neighbour in every other cell's
\* estimate; and psi_observation_score is 0 for an undefined observation.
C2_MissingInputNeutral ==
    \A p \in Proc : pc[p] \in {"check", "done"} =>
        LET f == frame[p]
            D == DefinedCells(f.exon_psi_array)
        IN  /\ Len(f.observed_psi_array) = Cardinality(D)
            /\ f.total_cells =
                   Cardinality(ScoredCells(f.exon_psi_array, f.exon_mrna_array))
            /\ \A k \in 1..Len(f.neighborhood_psi_array) :
                   IsWeightedAverage(f.neighborhood_psi_array[k],
                                     KthDefined(f.exon_psi_array, k),
                                     f.exon_psi_array, cell_metric)
            /\ Scored(p) =>
                   /\ Len(f.L_vec) = Cardinality(D)
                   /\ ret[p] = LDivInt(NpSum(f.L_vec), f.total_cells)
                   /\ \A k \in 1..Len(f.L_vec) :
                          psi_observation_score(NaN, f.neighborhood_psi_array[k],
                              f.global_psi, f.mrna_array[k],
                              args[p].capture_efficiency,
                              args[p].min_probability) = LogZero

\* a score has been returned for a column in which an unobserved cell with
\* molecule estimate 0.1 is a positively weighted neighbour of an observed
\* cell whose estimate is defined
C2_Witness ==
    /\ Scored(1)
    /\ \E k \in 1..Len(frame[1].observed_psi_array) :
           LET i == KthDefined(frame[1].exon_psi_array, k)
           IN  /\ ~isnan(frame[1].neighborhood_psi_array[k])
               /\ \E j \in 2..Len(cell_metric[1][i]) :
                      /\ cell_metric[2][i][j] > 0
                      /\ isnan(frame[1].exon_psi_array[cell_metric[1][i][j]])
                      /\ frame[1].exon_mrna_array[cell_metric[1][i][j]] = <<1, 10>>

\* C8: get_arrays returns one (observation, estimate, molecules) triple per
\* cell with a defined observation, in cell order, each with the cell's own
\* observation and molecule value; the estimate is the weighted average of
\* the observed neighbours at positions after the first (self), it is NaN
\* (the cell still kept) when their weights do not sum to more than 0, and a
\* defined estimate lies between two contributing observations.
C8_NeighborhoodSmoother ==
    \A p \in Proc : pc[p] = "check" =>
        LET f == frame[p]
            n == Cardinality(DefinedCells(f.exon_psi_array))
        IN  /\ Len(f.observed_psi_array) = n
            /\ Len(f.neighborhood_psi_array) = n
            /\ Len(f.mrna_array) = n
            /\ \A k \in 1..n :
                   LET i == KthDefined(f.exon_psi_array, k)
                       x == f.exon_mrna_array[i]
                       est == f.neighborhood_psi_array[k]
                       obs == {f.exon_psi_array[cell_metric[1][i][j]] :
                                 j \in Contributing(i, f.exon_psi_array, cell_metric)}
                   IN  /\ f.observed_psi_array[k] = f.exon_psi_array[i]
                       /\ f.mrna_array[k] = IF ZeroMolecules(x) THEN 0
                                            ELSE IF RLe(x, R(1)) THEN 1
                                            ELSE Round(x)
                       /\ IsWeightedAverage(est, i, f.exon_psi_array, cell_metric)
                       /\ ~isnan(est) =>
                              \E lo \in obs, hi \in obs : RLe(lo, est) /\ RLe(est, hi)

\* get_arrays has run on a column with a missing cell, a kept cell whose
\* estimate is undefined and a kept cell whose estimate is defined
C8_Witness ==
    /\ pc[1] = "check"
    /\ DefinedCells(frame[1].exon_psi_array) # Cells
    /\ \E k \in 1..Len(frame[1].neighborhood_psi_array) :
           isnan(frame[1].neighborhood_psi_array[k])
    /\ \E k \in 1..Len(frame[1].neighborhood_psi_array) :
           ~isnan(frame[1].neighborhood_psi_array[k])

\* C9: with randomize=True both arrays are reindexed by one bijection of the
\* whole index range, missing positions included, and the neighbour graph is
\* never changed; the number of filtered cells, total_scored_cells and the
\* global estimate are those of the caller's unpermuted column.
C9_PermutationKeepsPairs ==
    /\ [](\A p \in Proc :
            (args[p].randomize /\ pc[p] \in {"get_arrays", "check", "done"}) =>
                LET f == frame[p]
                    sc == f.shuffled_cells
                    D == DefinedCells(exon_psi_array)
                IN  /\ Len(sc) = NCells
                    /\ {sc[k] : k \in 1..Len(sc)} = Cells
                    /\ \A k \in Cells :
                           /\ f.exon_psi_array[k] = exon_psi_array[sc[k]]
                           /\ f.exon_mrna_array[k] = exon_mrna_array[sc[k]]
                    /\ pc[p] # "get_arrays" =>
                           /\ Len(f.observed_psi_array) = Cardinality(D)
                           /\ f.total_cells =
                                  Cardinality(ScoredCells(exon_psi_array, exon_mrna_array))
                    /\ Scored(p) =>
                           f.global_psi =
                               RDiv(SumOver(D, [i \in D |-> exon_psi_array[i]]),
                                    R(Cardinality(D))))
    /\ [][cell_metric' = cell_metric]_vars

\* a randomized call has returned a score for a column with a missing cell,
\* and the permutation moved observations
C9_Witness ==
    /\ Scored(1)
    /\ args[1].randomize
    /\ DefinedCells(exon_psi_array) # Cells
    /\ frame[1].exon_psi_array # exon_psi_array

\* C3: a randomized call with the seed of an earlier call on the same inputs
\* draws the permutation the earlier call drew, and with the same arguments
\* returns what it returned, whatever calls ran in between.
C3_PermutationDeterminism ==
    /\ ( /\ returned.has /\ returned.args.randomize /\ args[1].randomize
         /\ returned.args.seed = args[1].seed
         /\ pc[1] \in {"get_arrays", "check", "done"} )
       => frame[1].shuffled_cells = returned.shuffled_cells
    /\ ( /\ returned.has /\ args[1].randomize /\ returned.args = args[1]
         /\ pc[1] = "done" )
       => ret[1] = returned.ret

\* a randomized call has returned a score, the caller holds the result of an
\* earlier call with the same arguments, and a call with other arguments
\* finished between the two
C3_Witness ==
    /\ Scored(1)
    /\ args[1].randomize
    /\ returned.has /\ returned.others
    /\ returned.args = args[1]

\* C4: in concurrent randomized calls, under every interleaving, each call
\* has the permutation it would draw alone from a generator seeded with its
\* own seed, and the calls share no state that one of them changes.
C4_ParallelSafe ==
    \A p \in Proc : pc[p] \in {"get_arrays", "check", "done"} =>
        frame[p].shuffled_cells = shuffle(SeedState(rng, args[p].seed), NCells)

\* C5: a cell whose neighbourhood estimate equals the global estimate exactly
\* scores exactly 0, for every common value in [0, 1], every molecule count,
\* on the direct and on the turbo path.
C5_NeutralScore ==
    \A p \in Proc : Scored(p) =>
        \A k \in 1..Len(frame[p].L_vec) :
            frame[p].neighborhood_psi_array[k] = frame[p].global_psi
                => frame[p].L_vec[k] = LogZero

\* C6: every per-cell score s has |s| <= |log(min_probability) - log(1)|,
\* i.e. min_probability <= exp(s) <= 1/min_probability, on the direct and on
\* the turbo path.
C6_FloorRespected ==
    \A p \in Proc : Scored(p) =>
        \A k \in 1..Len(frame[p].L_vec) :
            LET s == frame[p].L_vec[k]
            IN  /\ ~s.nan
                /\ RLe(args[p].min_probability, Exp(s))
                /\ RLe(RMul(Exp(s), args[p].min_probability), R(1))

\* C7: on the direct path a per-cell score is never undefined, it is 0 for a
\* cell whose neighbourhood estimate is undefined, and the exon score is a
\* defined number whenever total_scored_cells > 0.
C7_NaNRobust ==
    \A p \in Proc : (Scored(p) /\ args[p].turbo = 0) =>
        /\ ~ret[p].nan
        /\ \A k \in 1..Len(frame[p].L_vec) :
               /\ ~frame[p].L_vec[k].nan
               /\ isnan(frame[p].neighborhood_psi_array[k])
                      => frame[p].L_vec[k] = LogZero

\* C10: with K tables, both lookups of every filtered cell use a table
\* selector in 0..K-1, a row index in 0..100 and a column index in 0..98.
C10_TurboInBounds ==
    \A p \in Proc : (Scored(p) /\ args[p].turbo > 0) =>
        \A k \in 1..Len(frame[p].L_vec) :
            \A psi \in {frame[p].neighborhood_psi_array[k], frame[p].global_psi} :
                LET ix == TurboIndex(frame[p].observed_psi_array[k], psi,
                                     frame[p].mrna_array[k], nan_cast)
                IN  /\ ix.mrna_idx \in 0..(args[p].turbo - 1)
                    /\ ix.psi_o_idx \in 0..100
                    /\ ix.psi_a_idx \in 0..98

====
